---- MODULE Spec2Model ----
(***************************************************************************)
(* Model of the live interpretation WebSocket server (websocket-server.js, *)
(* src/unnamed/part_009): InterpreterSession, the per-connection message   *)
(* handlers, the session registry and the timers and provider calls the    *)
(* handlers leave pending.                                                 *)
(*                                                                         *)
(* Atomicity follows the JavaScript event loop: one action is one          *)
(* run-to-completion segment, i.e. a handler or a timer callback up to its *)
(* first await, or the continuation of an await up to the next one.        *)
(***************************************************************************)
EXTENDS Integers, Sequences, FiniteSets, TLC

\* ------------------------------------------------------------------ bounds
\* Spec: one connection and the sessions it starts, no clock.
MaxInputs == 5        \* messages received on the connection
\* SpecShort: the same with fewer messages.
ShortInputs == 4
\* SpecSweep: one connection, with malformed and unknown messages, the clock
\* and the idle sweep.
SweepInputs == 3
SweepTicks  == 2      \* advances of the clock
\* SpecReap: one connection that starts sessions under two ids, the clock and
\* the idle sweep.
ReapInputs == 3
ReapTicks  == 2
\* SpecPair: two connections that start sessions under two ids, no clock.
PairInputs == 3
\* SpecLang: one connection whose start messages carry every language
\* configuration, audio and the pipeline, no clock.
LangInputs == 2
\* SpecFair, SpecSettle: one connection under fairness, a start message at
\* sample rate 1.
FairInputs == 3
\* SpecDown: two connections that start, pause and stop sessions under two
\* ids, the clock, the idle sweep and the shutdown handler.
DownInputs == 3
DownTicks  == 1
\* SpecDetect: one connection whose speech-to-text results are all the texts of
\* at most DetectLen code units over DetectChars.
DetectInputs == 2
DetectLen    == 2

\* ------------------------------------------------------- program constants
DefaultSampleRate == 16000
FlushDurationMs   == 1500
TIMEOUT           == 1800000

SessionIds == {"s1", "s2"}
NoSession  == 0

\* Sizes (in samples) an audio message may announce.
ChunkSamples == {1, 2}
\* sampleRate values of a start message; 0 stands for a missing field.
SampleRates == {2}

\* Texts are sequences of UTF-16 code units.
Whitespace == {9, 10, 13, 32}
TxtEmpty  == <<>>
TxtBlank  == <<32>>
TxtHi     == <<72, 105>>
TxtArabic == <<1587, 1604>>
\* What the speech-to-text provider may return.
SttTexts == {TxtEmpty, TxtBlank, TxtHi, TxtArabic}

\* One code unit of each script range of detectLanguageFromText: Arabic seen,
\* Urdu peh, a CJK ideograph, hiragana a, katakana a, a Hangul syllable and
\* Cyrillic pe, with a Latin letter and the space.
DetectChars == {32, 72, 1587, 1662, 20013, 12354, 12450, 54620, 1055}
DetectTexts ==
  UNION {[1..n -> DetectChars] : n \in 0..DetectLen}

\* ---------------------------------------------------------- pure functions
RECURSIVE TrimLeft(_)
TrimLeft(t) ==
  IF t # <<>> /\ Head(t) \in Whitespace THEN TrimLeft(Tail(t)) ELSE t

RECURSIVE TrimRight(_)
TrimRight(t) ==
  IF t # <<>> /\ t[Len(t)] \in Whitespace
    THEN TrimRight(SubSeq(t, 1, Len(t) - 1))
    ELSE t

\* trim() that removes nothing.
NoTrim(t) == t

Trim(t) == TrimRight(TrimLeft(t))

Test(lo, hi, t) == \E i \in DOMAIN t : t[i] >= lo /\ t[i] <= hi

detectLanguageFromText(text) ==
  IF Len(Trim(text)) = 0 THEN "en"
  ELSE IF Test(1536, 1791, text) THEN "ar"
  ELSE IF Test(1536, 1791, text) THEN "ur"
  ELSE IF Test(19968, 40959, text) THEN "zh"
  ELSE IF Test(12352, 12447, text) \/ Test(12448, 12543, text) THEN "ja"
  ELSE IF Test(44032, 55215, text) THEN "ko"
  ELSE IF Test(1024, 1279, text) THEN "ru"
  ELSE "en"

\* getTargetLanguage that returns the configured target as it is.
getTargetLanguageAsConfigured(detectedLang, sessionConfig) == sessionConfig.to

getTargetLanguage(detectedLang, sessionConfig) ==
  LET from == sessionConfig.from
      to   == sessionConfig.to
  IN IF sessionConfig.mode = "alternate"
       THEN IF from = "auto" /\ to = "auto"
              THEN (IF detectedLang = "en" THEN "es" ELSE "en")
            ELSE IF from = "auto" THEN to
            ELSE IF to = "auto"
              THEN (IF from # detectedLang THEN from ELSE "en")
            ELSE (IF detectedLang = from THEN to ELSE from)
       ELSE IF to = "auto" THEN "en" ELSE to

\* Session configurations a start message may carry. With target en a Latin
\* transcript needs no translation and an Arabic one does.
Configs ==
  { [from |-> "auto", to |-> "en", mode |-> "fixed", sampleRate |-> r] : r \in SampleRates }

\* Every combination of the from, to and mode fields of a start message, with
\* a sample rate at which one chunk of two samples reaches the threshold.
LangSides == {"auto", "en", "ar", "es"}
LangConfigs ==
  [from : LangSides, to : LangSides, mode : {"fixed", "alternate"}, sampleRate : {1}]

RECURSIVE SumSamples(_)
SumSamples(buf) ==
  IF buf = <<>> THEN 0 ELSE Head(buf).samples + SumSamples(Tail(buf))

\* ------------------------------------------------------------------- state
VARIABLES
  sess,        \* the InterpreterSession objects, in order of construction
  sessions,    \* the module-level Map sessionId -> session object (0: no entry)
  session,     \* per connection, the handler closure's `session` variable
  readyState,  \* per connection, ws.readyState
  flushes,     \* processAccumulatedAudio calls suspended at a provider call
  timers,      \* pending setTimeout callbacks, in the order they were armed
  tempFiles,   \* names of the files in the temp directory
  now,         \* Date.now()
  out,         \* the messages ws.send was called with in the last step
  ev,          \* what the last step was
  nChunks,     \* audio messages received so far
  nFlush,      \* flushes dispatched so far
  nTicks,      \* clock advances so far
  nIn,         \* messages received so far
  lim          \* the bounds of the run

vars == <<sess, sessions, session, readyState, flushes, timers, tempFiles,
          now, out, ev, nChunks, nFlush, nTicks, nIn, lim>>

Conns == DOMAIN readyState

\* ev.op names the handler, callback or continuation that ran; ev.s is the
\* session it ran for (0: none), ev.f the flush it dispatched or continued
\* (0: none), ev.n the samples of an audio message, the timers a vad message
\* armed, the history field of the grace timer that fired, or the length of
\* the text of an empty speech-to-text result before trimming.
\* ev.why is the kind of error a failed primary translation call threw.
NoEv == [op |-> "init", s |-> 0, f |-> 0, n |-> 0, why |-> ""]
Ev(op, s, f, n) == [op |-> op, s |-> s, f |-> f, n |-> n, why |-> ""]

InitWith(conns, bounds) ==
  /\ lim = bounds
  /\ sess = <<>>
  /\ sessions = [id \in SessionIds |-> NoSession]
  /\ session = [c \in conns |-> NoSession]
  /\ readyState = [c \in conns |-> "OPEN"]
  /\ flushes = {}
  /\ timers = <<>>
  /\ tempFiles = {}
  /\ now = 0
  /\ out = <<>>
  /\ ev = NoEv
  /\ nChunks = 0
  /\ nFlush = 0
  /\ nTicks = 0
  /\ nIn = 0

Init == InitWith({1}, [inputs |-> MaxInputs, ticks |-> 0])

\* ------------------------------------------------- InterpreterSession.send
\* The operators below take the session object's index s and its record S
\* and return the record after the call together with the messages sent.
\* send without the isActive test.
SendOkIgnoringActive(S) == readyState[S.ws] = "OPEN"

SendOk(S) == readyState[S.ws] = "OPEN" /\ S.isActive

send(S, message) ==
  IF SendOk(S)
    THEN [S |-> [S EXCEPT !.lastActivity = now], out |-> <<message>>]
    ELSE [S |-> S, out |-> <<>>]

StatusMsg(s, f, status) ==
  [type |-> "status", session |-> s, flush |-> f, body |-> status]
FinalMsg(s, f, asr, mt, lid) ==
  [type |-> "final", session |-> s, flush |-> f,
   body |-> [asr |-> asr, mt |-> mt, lid |-> lid]]
ErrorMsg(s, f, why) ==
  [type |-> "error", session |-> s, flush |-> f, body |-> why]

updateState(s, S, f, newState) ==
  send([S EXCEPT !.state = newState], StatusMsg(s, f, newState))

sendFinal(s, S, f, asr, translation, detectedLang) ==
  send(S, FinalMsg(s, f, asr, translation, detectedLang))

sendError(s, S, f, message) ==
  send(S, ErrorMsg(s, f, message))

\* -------------------------------- InterpreterSession.processAccumulatedAudio
\* The file name `${sessionId}_${Date.now()}.wav`.
TempFile(S) == <<S.sessionId, now>>

\* told notes what was sent when the flush was dispatched (history field, read
\* by no operation).
NewFlush(s, S) ==
  [id |-> nFlush + 1, session |-> s, segment |-> S.audioBuffer, pc |-> "stt",
   tempFile |-> TempFile(S), text |-> <<>>, detected |-> "", target |-> "",
   told |-> <<>>]

\* The call up to its first await: nothing happens on an empty buffer;
\* otherwise the state becomes translating, the buffered chunks are combined,
\* written to the temp file and handed to the speech-to-text provider.
\* fl is the set of flushes the call leaves suspended.
processAccumulatedAudio(s, S) ==
  IF Len(S.audioBuffer) = 0
    THEN [S |-> S, out |-> <<>>, fl |-> {}]
    ELSE LET u == updateState(s, S, nFlush + 1, "translating")
         IN [S |-> u.S, out |-> u.out,
             fl |-> {[NewFlush(s, u.S) EXCEPT !.told = u.out]}]

\* -------------------------------------- InterpreterSession.processAudioChunk
SampleRateOf(S) ==
  IF S.config.sampleRate = 0 THEN DefaultSampleRate ELSE S.config.sampleRate

\* durationMs >= 1500, with durationMs = totalSamples / sampleRate * 1000
DurationReached(S) ==
  SumSamples(S.audioBuffer) * 1000 >= FlushDurationMs * SampleRateOf(S)

ShouldFlush(S) == DurationReached(S) \/ S.vadState = "end_detected"

\* processAudioChunk without its test of the paused state.
processAudioChunkWhilePaused(s, S, chunk) ==
  LET P == [S EXCEPT !.audioBuffer = Append(@, chunk)]
  IN IF ShouldFlush(P)
       THEN processAccumulatedAudio(s, P)
       ELSE [S |-> P, out |-> <<>>, fl |-> {}]

processAudioChunk(s, S, chunk) ==
  IF S.state = "paused"
    THEN [S |-> S, out |-> <<>>, fl |-> {}]
    ELSE LET P == [S EXCEPT !.audioBuffer = Append(@, chunk)]
         IN IF ShouldFlush(P)
              THEN processAccumulatedAudio(s, P)
              ELSE [S |-> P, out |-> <<>>, fl |-> {}]

\* ---------------------------------------------- InterpreterSession.handleVAD
\* tm is the sequence of timers the call arms.
handleVAD(s, S, event) ==
  IF event = "end"
    THEN [S  |-> [S EXCEPT !.vadState = "end_detected"],
          tm |-> IF Len(S.audioBuffer) > 0
                   THEN <<[kind |-> "grace", s |-> s, f |-> 0, n |-> 0]>>
                   ELSE <<>>]
    ELSE [S |-> [S EXCEPT !.vadState = event], tm |-> <<>>]

pause(s, S)  == updateState(s, S, 0, "paused")
resume(s, S) == updateState(s, S, 0, "listening")
stop(S)      == [S EXCEPT !.isActive = FALSE]

\* ---------------------------------------------------- ws.on('message', ...)
NewSession(c, sessionId, config) ==
  [ws |-> c, sessionId |-> sessionId, config |-> config, state |-> "idle",
   audioBuffer |-> <<>>, vadState |-> "silence", isActive |-> TRUE,
   lastActivity |-> now]

\* Grace timers of session s note a flush that an audio chunk dispatched only
\* because of the end marker (history field n, read by no operation).
NoteMarkerFlush(tms, s) ==
  [i \in DOMAIN tms |->
     IF tms[i].kind = "grace" /\ tms[i].s = s /\ tms[i].n < 2
       THEN [tms[i] EXCEPT !.n = @ + 1]
       ELSE tms[i]]

Start(c, sessionId, config) ==
  /\ readyState[c] = "OPEN"
  /\ LET s == Len(sess) + 1
         u == updateState(s, NewSession(c, sessionId, config), 0, "listening")
     IN /\ sess' = Append(sess, u.S)
        /\ session' = [session EXCEPT ![c] = s]
        /\ sessions' = [sessions EXCEPT ![sessionId] = s]
        /\ out' = u.out
        /\ ev' = Ev("start", s, 0, 0)
  /\ UNCHANGED <<readyState, flushes, timers, tempFiles, now, nChunks, nFlush, nTicks, lim>>

\* A chunk is its arrival number and its sample count; win notes whether a
\* flush of the session was outstanding when it arrived (history field, read
\* by no operation).
Audio(c, samples) ==
  /\ readyState[c] = "OPEN"
  /\ nChunks' = nChunks + 1
  /\ LET s == session[c]
     IN IF s = NoSession
          THEN /\ out' = <<>>
               /\ ev' = Ev("audio", 0, 0, samples)
               /\ UNCHANGED <<sess, flushes, timers, tempFiles, nFlush>>
          ELSE LET chunk == [id |-> nChunks + 1, samples |-> samples,
                             win |-> \E f \in flushes : f.session = s]
                   r == processAudioChunk(s, sess[s], chunk)
                   byMarker == r.fl # {} /\ ~DurationReached(r.S)
               IN /\ sess' = [sess EXCEPT ![s] = r.S]
                  /\ flushes' = flushes \cup r.fl
                  /\ tempFiles' = tempFiles \cup {f.tempFile : f \in r.fl}
                  /\ nFlush' = nFlush + Cardinality(r.fl)
                  /\ timers' = IF byMarker THEN NoteMarkerFlush(timers, s) ELSE timers
                  /\ out' = r.out
                  /\ ev' = Ev("audio", s, IF r.fl = {} THEN 0 ELSE nFlush + 1, samples)
  /\ UNCHANGED <<sessions, session, readyState, now, nTicks, lim>>

Vad(c, event) ==
  /\ readyState[c] = "OPEN"
  /\ LET s == session[c]
     IN IF s = NoSession
          THEN /\ ev' = Ev("vad", 0, 0, 0)
               /\ UNCHANGED <<sess, timers>>
          ELSE LET r == handleVAD(s, sess[s], event)
               IN /\ sess' = [sess EXCEPT ![s] = r.S]
                  /\ timers' = timers \o r.tm
                  /\ ev' = Ev("vad", s, 0, Len(r.tm))
  /\ out' = <<>>
  /\ UNCHANGED <<sessions, session, readyState, flushes, tempFiles, now,
                 nChunks, nFlush, nTicks, lim>>

Pause(c) ==
  /\ readyState[c] = "OPEN"
  /\ LET s == session[c]
     IN IF s = NoSession
          THEN /\ out' = <<>>
               /\ ev' = Ev("pause", 0, 0, 0)
               /\ UNCHANGED sess
          ELSE LET u == pause(s, sess[s])
               IN /\ sess' = [sess EXCEPT ![s] = u.S]
                  /\ out' = u.out
                  /\ ev' = Ev("pause", s, 0, 0)
  /\ UNCHANGED <<sessions, session, readyState, flushes, timers, tempFiles, now,
                 nChunks, nFlush, nTicks, lim>>

Resume(c) ==
  /\ readyState[c] = "OPEN"
  /\ LET s == session[c]
     IN IF s = NoSession
          THEN /\ out' = <<>>
               /\ ev' = Ev("resume", 0, 0, 0)
               /\ UNCHANGED sess
          ELSE LET u == resume(s, sess[s])
               IN /\ sess' = [sess EXCEPT ![s] = u.S]
                  /\ out' = u.out
                  /\ ev' = Ev("resume", s, 0, 0)
  /\ UNCHANGED <<sessions, session, readyState, flushes, timers, tempFiles, now,
                 nChunks, nFlush, nTicks, lim>>

\* session.stop() without sessions.delete(session.sessionId).
StopKeepsEntry(c, op) ==
  LET s == session[c]
  IN IF s = NoSession
       THEN /\ ev' = Ev(op, 0, 0, 0)
            /\ UNCHANGED <<sess, sessions>>
       ELSE /\ sess' = [sess EXCEPT ![s] = stop(@)]
            /\ sessions' = sessions
            /\ ev' = Ev(op, s, 0, 0)

\* session.stop(); sessions.delete(session.sessionId), shared by the stop
\* message and the close and error events of the connection.
StopAndDelete(c, op) ==
  LET s == session[c]
  IN IF s = NoSession
       THEN /\ ev' = Ev(op, 0, 0, 0)
            /\ UNCHANGED <<sess, sessions>>
       ELSE /\ sess' = [sess EXCEPT ![s] = stop(@)]
            /\ sessions' = [sessions EXCEPT ![sess[s].sessionId] = NoSession]
            /\ ev' = Ev(op, s, 0, 0)

\* A stop message that, on a connection without a session, falls back to the
\* session registered under the id s1.
StopByRegistry(c) ==
  /\ readyState[c] = "OPEN"
  /\ LET s == IF session[c] = NoSession THEN sessions["s1"] ELSE session[c]
     IN IF s = NoSession
          THEN UNCHANGED <<sess, sessions>>
          ELSE /\ sess' = [sess EXCEPT ![s] = stop(@)]
               /\ sessions' = [sessions EXCEPT ![sess[s].sessionId] = NoSession]
  /\ ev' = Ev("stop", session[c], 0, 0)
  /\ out' = <<>>
  /\ UNCHANGED <<session, readyState, flushes, timers, tempFiles, now,
                 nChunks, nFlush, nTicks, lim>>

Stop(c) ==
  /\ readyState[c] = "OPEN"
  /\ StopAndDelete(c, "stop")
  /\ out' = <<>>
  /\ UNCHANGED <<session, readyState, flushes, timers, tempFiles, now,
                 nChunks, nFlush, nTicks, lim>>

\* An unknown message type answered like a message that fails to parse.
UnknownReportsError(c) ==
  /\ readyState[c] = "OPEN"
  /\ LET s == session[c]
     IN IF s = NoSession
          THEN /\ out' = <<>>
               /\ UNCHANGED sess
          ELSE LET u == sendError(s, sess[s], 0, "Message processing failed")
               IN /\ sess' = [sess EXCEPT ![s] = u.S]
                  /\ out' = u.out
  /\ ev' = Ev("unknown", session[c], 0, 0)
  /\ UNCHANGED <<sessions, session, readyState, flushes, timers, tempFiles, now,
                 nChunks, nFlush, nTicks, lim>>

\* An unknown message type is logged only.
Unknown(c) ==
  /\ readyState[c] = "OPEN"
  /\ out' = <<>>
  /\ ev' = Ev("unknown", session[c], 0, 0)
  /\ UNCHANGED <<sess, sessions, session, readyState, flushes, timers, tempFiles,
                 now, nChunks, nFlush, nTicks, lim>>

\* A message that fails to parse ends the session and the connection.
MalformedCloses(c) ==
  /\ readyState[c] = "OPEN"
  /\ readyState' = [readyState EXCEPT ![c] = "CLOSED"]
  /\ StopAndDelete(c, "malformed")
  /\ out' = <<>>
  /\ UNCHANGED <<session, flushes, timers, tempFiles, now, nChunks, nFlush, nTicks, lim>>

\* JSON.parse throws: the catch clause reports to the connection's session.
Malformed(c) ==
  /\ readyState[c] = "OPEN"
  /\ LET s == session[c]
     IN IF s = NoSession
          THEN /\ out' = <<>>
               /\ ev' = Ev("malformed", 0, 0, 0)
               /\ UNCHANGED sess
          ELSE LET u == sendError(s, sess[s], 0, "Message processing failed")
               IN /\ sess' = [sess EXCEPT ![s] = u.S]
                  /\ out' = u.out
                  /\ ev' = Ev("malformed", s, 0, 0)
  /\ UNCHANGED <<sessions, session, readyState, flushes, timers, tempFiles, now,
                 nChunks, nFlush, nTicks, lim>>

\* ------------------------------------------- ws.on('close') / ws.on('error')
Close(c) ==
  /\ readyState[c] # "CLOSED"
  /\ readyState' = [readyState EXCEPT ![c] = "CLOSED"]
  /\ StopAndDelete(c, "close")
  /\ out' = <<>>
  /\ UNCHANGED <<session, flushes, timers, tempFiles, now, nChunks, nFlush, nTicks, lim>>

\* The socket is already closing when the ws library emits 'error'.
Error(c) ==
  /\ readyState[c] = "OPEN"
  /\ readyState' = [readyState EXCEPT ![c] = "CLOSING"]
  /\ StopAndDelete(c, "error")
  /\ out' = <<>>
  /\ UNCHANGED <<session, flushes, timers, tempFiles, now, nChunks, nFlush, nTicks, lim>>

\* ------------------------------------------------------ setTimeout callbacks
RemoveAt(seq, i) == SubSeq(seq, 1, i - 1) \o SubSeq(seq, i + 1, Len(seq))

\* The grace delay (100 ms) is shorter than every playback delay (>= 1000 ms):
\* no timer fires before a grace timer that was armed earlier.
CanFire(i) == \A j \in 1..(i - 1) : timers[j].kind # "grace"

\* setTimeout(() => this.processAccumulatedAudio(), 100)
GraceTimer(i) ==
  /\ i \in DOMAIN timers
  /\ timers[i].kind = "grace"
  /\ CanFire(i)
  /\ LET s == timers[i].s
         r == processAccumulatedAudio(s, sess[s])
     IN /\ sess' = [sess EXCEPT ![s] = r.S]
        /\ flushes' = flushes \cup r.fl
        /\ tempFiles' = tempFiles \cup {f.tempFile : f \in r.fl}
        /\ nFlush' = nFlush + Cardinality(r.fl)
        /\ out' = r.out
        /\ ev' = Ev("graceTimer", s, IF r.fl = {} THEN 0 ELSE nFlush + 1, timers[i].n)
  /\ timers' = RemoveAt(timers, i)
  /\ UNCHANGED <<sessions, session, readyState, now, nChunks, nTicks, lim>>

\* setTimeout(() => { if (this.isActive && this.state === 'playing') ... })
PlaybackTimer(i) ==
  /\ i \in DOMAIN timers
  /\ timers[i].kind = "playback"
  /\ CanFire(i)
  /\ LET s == timers[i].s
         S == sess[s]
         u == IF S.isActive /\ S.state = "playing"
                THEN updateState(s, S, 0, "listening")
                ELSE [S |-> S, out |-> <<>>]
     IN /\ sess' = [sess EXCEPT ![s] = u.S]
        /\ out' = u.out
        /\ ev' = Ev("playbackTimer", s, timers[i].f, 0)
  /\ timers' = RemoveAt(timers, i)
  /\ UNCHANGED <<sessions, session, readyState, flushes, tempFiles, now,
                 nChunks, nFlush, nTicks, lim>>

\* ------------------- processAccumulatedAudio: continuations of the awaits
\* Both finally clauses: unlink the temp file, clear the buffer, reset the
\* VAD marker.
Cleanup(S) == [S EXCEPT !.audioBuffer = <<>>, !.vadState = "silence"]

\* Succeed with updateState('playing') ahead of sendFinal.
SucceedStatusFirst(f, g, translatedText, op) ==
  LET s == f.session
      b == updateState(s, sess[s], f.id, "playing")
      a == sendFinal(s, b.S, f.id, g.text, translatedText, g.detected)
  IN /\ sess' = [sess EXCEPT ![s] = Cleanup(a.S)]
     /\ out' = b.out \o a.out
     /\ timers' = Append(timers, [kind |-> "playback", s |-> s, f |-> f.id, n |-> 0])
     /\ flushes' = flushes \ {f}
     /\ tempFiles' = tempFiles \ {f.tempFile}
     /\ ev' = Ev(op, s, f.id, 0)

\* sendFinal, updateState('playing'), arm the playback timer.
Succeed(f, g, translatedText, op) ==
  LET s == f.session
      a == sendFinal(s, sess[s], f.id, g.text, translatedText, g.detected)
      b == updateState(s, a.S, f.id, "playing")
  IN /\ sess' = [sess EXCEPT ![s] = Cleanup(b.S)]
     /\ out' = a.out \o b.out
     /\ timers' = Append(timers, [kind |-> "playback", s |-> s, f |-> f.id, n |-> 0])
     /\ flushes' = flushes \ {f}
     /\ tempFiles' = tempFiles \ {f.tempFile}
     /\ ev' = Ev(op, s, f.id, 0)

\* The outer catch without its updateState('listening').
FailStaysTranslating(f, op) ==
  LET s == f.session
      a == sendError(s, sess[s], f.id, "Processing failed")
  IN /\ sess' = [sess EXCEPT ![s] = Cleanup(a.S)]
     /\ out' = a.out
     /\ flushes' = flushes \ {f}
     /\ tempFiles' = tempFiles \ {f.tempFile}
     /\ timers' = timers
     /\ ev' = Ev(op, s, f.id, 0)

\* The outer catch when the temp file is not unlinked on the way out.
FailKeepsFile(f, op) ==
  LET s == f.session
      a == sendError(s, sess[s], f.id, "Processing failed")
      b == updateState(s, a.S, f.id, "listening")
  IN /\ sess' = [sess EXCEPT ![s] = Cleanup(b.S)]
     /\ out' = a.out \o b.out
     /\ flushes' = flushes \ {f}
     /\ tempFiles' = tempFiles
     /\ timers' = timers
     /\ ev' = Ev(op, s, f.id, 0)

\* The outer catch: sendError, updateState('listening').
Fail(f, op) ==
  LET s == f.session
      a == sendError(s, sess[s], f.id, "Processing failed")
      b == updateState(s, a.S, f.id, "listening")
  IN /\ sess' = [sess EXCEPT ![s] = Cleanup(b.S)]
     /\ out' = a.out \o b.out
     /\ flushes' = flushes \ {f}
     /\ tempFiles' = tempFiles \ {f.tempFile}
     /\ timers' = timers
     /\ ev' = Ev(op, s, f.id, 0)

\* translatedText when no translation is needed: the transcript itself.
PassThrough(text, target) == [by |-> "none", src |-> text, to |-> target]
\* What translate.translate and the chat completion return.
Translation(provider, f) == [by |-> provider, src |-> f.text, to |-> f.target]

\* openai.audio.transcriptions.create resolves with transcription.text = text
SttReturn(f, text) ==
  /\ f \in flushes
  /\ f.pc = "stt"
  /\ LET s == f.session
         transcribedText == Trim(text)
         detectedLang == detectLanguageFromText(transcribedText)
         targetLang == getTargetLanguage(detectedLang, sess[s].config)
         g == [f EXCEPT !.text = transcribedText, !.detected = detectedLang,
                        !.target = targetLang]
     IN IF transcribedText = <<>>
          THEN LET u == updateState(s, sess[s], f.id, "listening")
               IN /\ sess' = [sess EXCEPT ![s] = Cleanup(u.S)]
                  /\ out' = u.out
                  /\ flushes' = flushes \ {f}
                  /\ tempFiles' = tempFiles \ {f.tempFile}
                  /\ timers' = timers
                  /\ ev' = Ev("sttEmpty", s, f.id, Len(text))
          ELSE IF detectedLang # targetLang
            THEN /\ flushes' = (flushes \ {f}) \cup {[g EXCEPT !.pc = "primary"]}
                 /\ out' = <<>>
                 /\ ev' = Ev("sttReturn", s, f.id, 0)
                 /\ UNCHANGED <<sess, timers, tempFiles>>
            ELSE Succeed(f, g, PassThrough(transcribedText, targetLang), "sttFinal")
  /\ UNCHANGED <<sessions, session, readyState, now, nChunks, nFlush, nTicks, lim>>

\* A speech-to-text rejection handled like a translate rejection: the chat
\* completion is called.
SttFailFallsBack(f) ==
  /\ f \in flushes
  /\ f.pc = "stt"
  /\ flushes' = (flushes \ {f}) \cup {[f EXCEPT !.pc = "fallback"]}
  /\ out' = <<>>
  /\ ev' = Ev("sttFail", f.session, f.id, 0)
  /\ UNCHANGED <<sess, sessions, session, readyState, timers, tempFiles, now,
                 nChunks, nFlush, nTicks, lim>>

\* openai.audio.transcriptions.create rejects
SttFail(f) ==
  /\ f \in flushes
  /\ f.pc = "stt"
  /\ Fail(f, "sttFail")
  /\ UNCHANGED <<sessions, session, readyState, now, nChunks, nFlush, nTicks, lim>>

\* translate.translate resolves
PrimaryReturn(f) ==
  /\ f \in flushes
  /\ f.pc = "primary"
  /\ Succeed(f, f, Translation("google", f), "primaryReturn")
  /\ UNCHANGED <<sessions, session, readyState, now, nChunks, nFlush, nTicks, lim>>

\* translate.translate rejects, whatever the error: the catch clause calls the
\* chat completion.
ErrorKinds == {"transient", "quota", "auth"}

PrimaryFail(f, kind) ==
  /\ f \in flushes
  /\ f.pc = "primary"
  /\ flushes' = (flushes \ {f}) \cup {[f EXCEPT !.pc = "fallback"]}
  /\ out' = <<>>
  /\ ev' = [Ev("primaryFail", f.session, f.id, 0) EXCEPT !.why = kind]
  /\ UNCHANGED <<sess, sessions, session, readyState, timers, tempFiles, now,
                 nChunks, nFlush, nTicks, lim>>

\* The fallback's result is not assigned to translatedText.
FallbackReturnKeepsTranscript(f) ==
  /\ f \in flushes
  /\ f.pc = "fallback"
  /\ Succeed(f, f, PassThrough(f.text, f.target), "fallbackReturn")
  /\ UNCHANGED <<sessions, session, readyState, now, nChunks, nFlush, nTicks, lim>>

\* openai.chat.completions.create resolves
FallbackReturn(f) ==
  /\ f \in flushes
  /\ f.pc = "fallback"
  /\ Succeed(f, f, Translation("openai", f), "fallbackReturn")
  /\ UNCHANGED <<sessions, session, readyState, now, nChunks, nFlush, nTicks, lim>>

\* openai.chat.completions.create rejects
FallbackFail(f) ==
  /\ f \in flushes
  /\ f.pc = "fallback"
  /\ Fail(f, "fallbackFail")
  /\ UNCHANGED <<sessions, session, readyState, now, nChunks, nFlush, nTicks, lim>>

\* ------------------------------------------------------- clock and cleanup
TickSteps == {1, TIMEOUT}

Tick(d) ==
  /\ nTicks < lim.ticks
  /\ nTicks' = nTicks + 1
  /\ now' = now + d
  /\ out' = <<>>
  /\ ev' = Ev("tick", 0, 0, 0)
  /\ UNCHANGED <<sess, sessions, session, readyState, flushes, timers, tempFiles,
                 nChunks, nFlush, lim>>

\* The idle test with >= in place of >.
IdleAtThreshold(s) == now - sess[s].lastActivity >= TIMEOUT

\* The setInterval callback: stop and delete every registered session whose
\* last activity is more than TIMEOUT ago.
Idle(s) == now - sess[s].lastActivity > TIMEOUT

Sweep ==
  LET gone == {id \in SessionIds : sessions[id] # NoSession /\ Idle(sessions[id])}
  IN /\ gone # {}
     /\ sess' = [s \in DOMAIN sess |->
                   IF \E id \in gone : sessions[id] = s THEN stop(sess[s]) ELSE sess[s]]
     /\ sessions' = [id \in SessionIds |->
                       IF id \in gone THEN NoSession ELSE sessions[id]]
     /\ out' = <<>>
     /\ ev' = Ev("sweep", 0, 0, Cardinality(gone))
     /\ UNCHANGED <<session, readyState, flushes, timers, tempFiles, now,
                    nChunks, nFlush, nTicks, lim>>

\* process.on('SIGTERM'): stop every registered session and clear the
\* registry. On an empty registry the handler changes nothing. wss.close()
\* stops the server from accepting connections; the open ones stay open.
Shutdown ==
  /\ \E id \in SessionIds : sessions[id] # NoSession
  /\ sess' = [s \in DOMAIN sess |->
                IF \E id \in SessionIds : sessions[id] = s
                  THEN stop(sess[s]) ELSE sess[s]]
  /\ sessions' = [id \in SessionIds |-> NoSession]
  /\ out' = <<>>
  /\ ev' = Ev("shutdown", 0, 0,
              Cardinality({s \in DOMAIN sess : \E id \in SessionIds : sessions[id] = s}))
  /\ UNCHANGED <<session, readyState, flushes, timers, tempFiles, now,
                 nChunks, nFlush, nTicks, lim>>

\* ----------------------------------------------------------- specification
\* A message arrives on a connection: at most lim.inputs of them.
Received == nIn < lim.inputs /\ nIn' = nIn + 1

\* The operations of a connection, its sessions and their pipelines.
Engine(ids) ==
  \/ \E c \in Conns, id \in ids, cfg \in Configs : Received /\ Start(c, id, cfg)
  \/ \E c \in Conns, k \in ChunkSamples : Received /\ Audio(c, k)
  \/ \E c \in Conns, e \in {"begin", "end"} : Received /\ Vad(c, e)
  \/ \E c \in Conns : Received /\ Pause(c)
  \/ \E c \in Conns : Received /\ Resume(c)
  \/ \E c \in Conns : Received /\ Stop(c)
  \/ \E c \in Conns : Close(c) /\ UNCHANGED nIn
  \/ \E c \in Conns : Error(c) /\ UNCHANGED nIn
  \/ \E i \in DOMAIN timers : GraceTimer(i) /\ UNCHANGED nIn
  \/ \E i \in DOMAIN timers : PlaybackTimer(i) /\ UNCHANGED nIn
  \/ \E f \in flushes, t \in SttTexts : SttReturn(f, t) /\ UNCHANGED nIn
  \/ \E f \in flushes : SttFail(f) /\ UNCHANGED nIn
  \/ \E f \in flushes : PrimaryReturn(f) /\ UNCHANGED nIn
  \/ \E f \in flushes, k \in ErrorKinds : PrimaryFail(f, k) /\ UNCHANGED nIn
  \/ \E f \in flushes : FallbackReturn(f) /\ UNCHANGED nIn
  \/ \E f \in flushes : FallbackFail(f) /\ UNCHANGED nIn

Next == Engine({"s1"})

Spec == Init /\ [][Next]_vars

InitShort == InitWith({1}, [inputs |-> ShortInputs, ticks |-> 0])

SpecShort == InitShort /\ [][Next]_vars

InitSweep == InitWith({1}, [inputs |-> SweepInputs, ticks |-> SweepTicks])

NextSweep ==
  \/ Engine({"s1"})
  \/ \E c \in Conns : Received /\ Unknown(c)
  \/ \E c \in Conns : Received /\ Malformed(c)
  \/ \E d \in TickSteps : Tick(d) /\ UNCHANGED nIn
  \/ Sweep /\ UNCHANGED nIn

SpecSweep == InitSweep /\ [][NextSweep]_vars

InitReap == InitWith({1}, [inputs |-> ReapInputs, ticks |-> ReapTicks])

\* In SpecReap the clock advances by the idle threshold: a session is then
\* idle for exactly the threshold, or for more.
ReapSteps == {TIMEOUT}

NextReap ==
  \/ Engine(SessionIds)
  \/ \E d \in ReapSteps : Tick(d) /\ UNCHANGED nIn
  \/ Sweep /\ UNCHANGED nIn

SpecReap == InitReap /\ [][NextReap]_vars

InitPair == InitWith({1, 2}, [inputs |-> PairInputs, ticks |-> 0])

NextPair == Engine(SessionIds)

SpecPair == InitPair /\ [][NextPair]_vars

InitDown == InitWith({1, 2}, [inputs |-> DownInputs, ticks |-> DownTicks])

\* In SpecDown one advance of the clock makes every session idle.
DownSteps == {TIMEOUT + 1}

\* The operations that create, stop, register or unregister a session, and
\* pause as a message that refreshes the activity time.
NextDown ==
  \/ \E c \in Conns, id \in SessionIds, cfg \in Configs : Received /\ Start(c, id, cfg)
  \/ \E c \in Conns : Received /\ Pause(c)
  \/ \E c \in Conns : Received /\ Stop(c)
  \/ \E c \in Conns : Close(c) /\ UNCHANGED nIn
  \/ \E c \in Conns : Error(c) /\ UNCHANGED nIn
  \/ \E d \in DownSteps : Tick(d) /\ UNCHANGED nIn
  \/ Sweep /\ UNCHANGED nIn
  \/ Shutdown /\ UNCHANGED nIn

SpecDown == InitDown /\ [][NextDown]_vars

InitDetect == InitWith({1}, [inputs |-> DetectInputs, ticks |-> 0])

\* Declared source languages of the start messages of SpecDetect.
DetectConfigs ==
  [from : {"auto", "en", "ur"}, to : {"en"}, mode : {"fixed"}, sampleRate : {1}]

NextDetect ==
  \/ \E c \in Conns, cfg \in DetectConfigs : Received /\ Start(c, "s1", cfg)
  \/ \E c \in Conns, k \in ChunkSamples : Received /\ Audio(c, k)
  \/ \E i \in DOMAIN timers : PlaybackTimer(i) /\ UNCHANGED nIn
  \/ \E f \in flushes, t \in DetectTexts : SttReturn(f, t) /\ UNCHANGED nIn
  \/ \E f \in flushes : SttFail(f) /\ UNCHANGED nIn
  \/ \E f \in flushes : PrimaryReturn(f) /\ UNCHANGED nIn
  \/ \E f \in flushes, k \in ErrorKinds : PrimaryFail(f, k) /\ UNCHANGED nIn
  \/ \E f \in flushes : FallbackReturn(f) /\ UNCHANGED nIn
  \/ \E f \in flushes : FallbackFail(f) /\ UNCHANGED nIn

SpecDetect == InitDetect /\ [][NextDetect]_vars

InitLang == InitWith({1}, [inputs |-> LangInputs, ticks |-> 0])

NextLang ==
  \/ \E c \in Conns, cfg \in LangConfigs : Received /\ Start(c, "s1", cfg)
  \/ \E c \in Conns, k \in ChunkSamples : Received /\ Audio(c, k)
  \/ \E c \in Conns : Received /\ Stop(c)
  \/ \E i \in DOMAIN timers : PlaybackTimer(i) /\ UNCHANGED nIn
  \/ \E f \in flushes, t \in SttTexts : SttReturn(f, t) /\ UNCHANGED nIn
  \/ \E f \in flushes : SttFail(f) /\ UNCHANGED nIn
  \/ \E f \in flushes : PrimaryReturn(f) /\ UNCHANGED nIn
  \/ \E f \in flushes, k \in ErrorKinds : PrimaryFail(f, k) /\ UNCHANGED nIn
  \/ \E f \in flushes : FallbackReturn(f) /\ UNCHANGED nIn
  \/ \E f \in flushes : FallbackFail(f) /\ UNCHANGED nIn

SpecLang == InitLang /\ [][NextLang]_vars

\* One connection under fair scheduling of the timers: a timer that is due
\* runs its callback. Nothing is assumed about the provider calls.
InitFair == InitWith({1}, [inputs |-> FairInputs, ticks |-> 0])

GraceTimers == \E i \in DOMAIN timers : GraceTimer(i) /\ UNCHANGED nIn

PlaybackTimers == \E i \in DOMAIN timers : PlaybackTimer(i) /\ UNCHANGED nIn

\* A start message whose sample rate lets one chunk of two samples reach the
\* flush threshold.
FairConfigs ==
  { [from |-> "auto", to |-> "en", mode |-> "fixed", sampleRate |-> 1] }

NextFair ==
  \/ \E c \in Conns, cfg \in FairConfigs : Received /\ Start(c, "s1", cfg)
  \/ \E c \in Conns, k \in ChunkSamples : Received /\ Audio(c, k)
  \/ \E c \in Conns, e \in {"begin", "end"} : Received /\ Vad(c, e)
  \/ \E c \in Conns : Received /\ Pause(c)
  \/ \E c \in Conns : Received /\ Resume(c)
  \/ \E c \in Conns : Received /\ Stop(c)
  \/ \E c \in Conns : Close(c) /\ UNCHANGED nIn
  \/ \E c \in Conns : Error(c) /\ UNCHANGED nIn
  \/ GraceTimers
  \/ PlaybackTimers
  \/ \E f \in flushes, t \in SttTexts : SttReturn(f, t) /\ UNCHANGED nIn
  \/ \E f \in flushes : SttFail(f) /\ UNCHANGED nIn
  \/ \E f \in flushes : PrimaryReturn(f) /\ UNCHANGED nIn
  \/ \E f \in flushes, k \in ErrorKinds : PrimaryFail(f, k) /\ UNCHANGED nIn
  \/ \E f \in flushes : FallbackReturn(f) /\ UNCHANGED nIn
  \/ \E f \in flushes : FallbackFail(f) /\ UNCHANGED nIn

SpecFair ==
  InitFair /\ [][NextFair]_vars /\ WF_vars(GraceTimers) /\ WF_vars(PlaybackTimers)

\* The same, with every awaited provider call eventually resolving or
\* rejecting.
ProviderCalls ==
  \E f \in flushes :
    \/ \E t \in SttTexts : SttReturn(f, t) /\ UNCHANGED nIn
    \/ SttFail(f) /\ UNCHANGED nIn
    \/ PrimaryReturn(f) /\ UNCHANGED nIn
    \/ \E k \in ErrorKinds : PrimaryFail(f, k) /\ UNCHANGED nIn
    \/ FallbackReturn(f) /\ UNCHANGED nIn
    \/ FallbackFail(f) /\ UNCHANGED nIn

SpecSettle == SpecFair /\ WF_vars(ProviderCalls)

\* ================================================================== claims
Range(seq) == {seq[i] : i \in DOMAIN seq}
InFlight(s) == {f \in flushes : f.session = s}
FlushIds == {f.id : f \in flushes}
DispatchOps == {"audio", "graceTimer"}
SuccessOps == {"sttFinal", "primaryReturn", "fallbackReturn"}
FailOps == {"sttFail", "fallbackFail"}
CompletionOps == SuccessOps \cup FailOps \cup {"sttEmpty"}
Sent(type, f) == {i \in DOMAIN out : out[i].type = type /\ out[i].flush = f}

\* C1: at most one pipeline flush of a session is in flight at any time.
C1_OneFlushInFlight ==
  \A s \in DOMAIN sess : Cardinality(InFlight(s)) <= 1

\* C2: from the moment a flush is dispatched the buffer no longer holds its
\* segment: right after the dispatch the buffer is empty and the VAD marker is
\* silence, and while the flush is outstanding no chunk of its segment is in
\* the buffer.
C2_ClearedAtDispatch ==
  \A f \in flushes :
    LET S == sess[f.session]
    IN /\ Range(S.audioBuffer) \cap Range(f.segment) = {}
       /\ (ev.op \in DispatchOps /\ ev.f = f.id)
            => (S.audioBuffer = <<>> /\ S.vadState = "silence")

\* C3: a chunk that arrives while a flush is outstanding is kept for the next
\* flush: it does not join the segment of an outstanding flush, it is not in
\* the segments of two flushes, and it is not dropped from the buffer, without
\* having been dispatched, when the outstanding flush completes.
C3_Step ==
  /\ \A f \in flushes, g \in flushes' : f.id = g.id => g.segment = f.segment
  /\ \A f \in flushes', g \in flushes' :
       f.id # g.id =>
         \A ch \in Range(f.segment) \cap Range(g.segment) : ~ch.win
  /\ \A f \in flushes :
       f.id \notin {g.id : g \in flushes'} =>
         \A ch \in Range(sess[f.session].audioBuffer) :
           \/ \E g \in flushes : ch \in Range(g.segment)
           \/ ch \in Range(sess'[f.session].audioBuffer)

C3_ChunksKeptForNextFlush == [][C3_Step]_vars

\* C4: an audio chunk received in state listening that brings the buffered
\* samples to the duration threshold dispatches exactly one flush, and the
\* buffer is empty immediately after the dispatch.
C4_Step ==
  \A s \in DOMAIN sess :
    ( /\ ev'.op = "audio" /\ ev'.s = s
      /\ sess[s].state = "listening"
      /\ (SumSamples(sess[s].audioBuffer) + ev'.n) * 1000
           >= FlushDurationMs * SampleRateOf(sess[s]) )
    => (nFlush' = nFlush + 1 /\ sess'[s].audioBuffer = <<>>)

C4_OneFlushPerCrossing == [][C4_Step]_vars

\* C5: a vad end with a non-empty buffer is followed by exactly one flush by the
\* time its grace timer has fired, counting the flushes that audio chunks
\* dispatched during the delay because of the end marker; a vad end with an
\* empty buffer arms no flush.
C5_OneFlushPerVadEnd ==
  /\ ev.op = "graceTimer" => ev.n + (IF ev.f # 0 THEN 1 ELSE 0) = 1
  /\ (ev.op = "vad" /\ ev.s # 0 /\ ev.n > 0) => sess[ev.s].audioBuffer # <<>>

\* C6: the state of a session changes only along the defined edges, each on
\* its own event.
Edge(a, b, op) ==
  \/ a = b
  \/ a = "listening" /\ b = "translating" /\ op \in DispatchOps
  \/ a = "translating" /\ b = "playing" /\ op \in SuccessOps
  \/ a = "translating" /\ b = "listening" /\ op \in FailOps \cup {"sttEmpty"}
  \/ a = "playing" /\ b = "listening" /\ op = "playbackTimer"
  \/ a \in {"listening", "translating", "playing"} /\ b = "paused" /\ op = "pause"
  \/ a = "paused" /\ b = "listening" /\ op = "resume"

C6_Step ==
  /\ \A s \in DOMAIN sess : Edge(sess[s].state, sess'[s].state, ev'.op)
  /\ \A s \in DOMAIN sess' \ DOMAIN sess :
       sess'[s].state = "listening" /\ ev'.op = "start"

C6_DefinedEdgesOnly == [][C6_Step]_vars

\* C7: once a session is stopped (by stop or by the loss of its connection)
\* nothing changes its state or its buffer and no flush is dispatched for it.
C7_Step ==
  \A s \in DOMAIN sess :
    ~sess[s].isActive =>
      /\ sess'[s].state = sess[s].state
      /\ sess'[s].audioBuffer = sess[s].audioBuffer
      /\ \A f \in flushes' : f.session = s => f.id \in FlushIds

C7_StoppedIsTerminal == [][C7_Step]_vars

\* C8: once a session is inactive (stop, close, error or the idle sweep) no
\* notification is sent for it again, whatever completes or fires afterwards.
C8_Step ==
  \A s \in DOMAIN sess :
    ~sess[s].isActive => \A i \in DOMAIN out' : out'[i].session # s

C8_NoSendOnceInactive == [][C8_Step]_vars

\* A provider call or a timer of an inactive session whose connection is still
\* open has just completed or fired, and nothing was sent.
C8_Witness ==
  /\ ev.op \in CompletionOps \cup {"graceTimer", "playbackTimer"}
  /\ ev.s # 0
  /\ ~sess[ev.s].isActive
  /\ readyState[sess[ev.s].ws] = "OPEN"
  /\ out = <<>>

\* C9 as stated: when the fallback translation succeeds after the primary
\* failed, exactly one final carrying the fallback's output is sent for the
\* flush, and no error.
FallbackOutput(m) == m.body.mt.by = "openai" /\ m.body.mt.src = m.body.asr

C9_FallbackLaw ==
  ev.op = "fallbackReturn" =>
    /\ Cardinality(Sent("final", ev.f)) = 1
    /\ \A i \in Sent("final", ev.f) : FallbackOutput(out[i])
    /\ Sent("error", ev.f) = {}

\* C9 amended: the final is sent if the session is still active and its
\* connection open when the fallback returns, and no final otherwise; in both
\* cases no error is sent, and a final is sent only by the step that completes
\* its flush.
Reachable(s) == sess[s].isActive /\ readyState[sess[s].ws] = "OPEN"

C9_FallbackLawWhileActive ==
  /\ ev.op = "fallbackReturn" =>
       /\ Cardinality(Sent("final", ev.f)) = (IF Reachable(ev.s) THEN 1 ELSE 0)
       /\ \A i \in Sent("final", ev.f) : FallbackOutput(out[i])
       /\ Sent("error", ev.f) = {}
  /\ \A i \in DOMAIN out :
       out[i].type = "final" => (ev.op \in SuccessOps /\ out[i].flush = ev.f)

C9_Witness ==
  /\ ev.op = "fallbackReturn"
  /\ Reachable(ev.s)
  /\ Cardinality(Sent("final", ev.f)) = 1

\* C10 as stated: a failed speech-to-text call, or a failure of both
\* translation calls, sends exactly one error and no final, returns the state
\* to listening and leaves the session active and registered and the
\* connection open.
SentNext(type, f) == {i \in DOMAIN out' : out'[i].type = type /\ out'[i].flush = f}

FailureLeavesSessionAlone(s) ==
  /\ SentNext("final", ev'.f) = {}
  /\ sess'[s].state = "listening"
  /\ sess'[s].isActive = sess[s].isActive
  /\ sessions' = sessions
  /\ readyState' = readyState

C10_StepAsStated ==
  \A f \in flushes :
    (ev'.op \in FailOps /\ ev'.f = f.id) =>
      /\ Cardinality(SentNext("error", f.id)) = 1
      /\ FailureLeavesSessionAlone(f.session)

C10_RecoverableError == [][C10_StepAsStated]_vars

\* C10 amended: the error is sent if the session is still active and its
\* connection open when the call fails, and no error otherwise; the rest holds
\* in both cases.
C10_Step ==
  \A f \in flushes :
    (ev'.op \in FailOps /\ ev'.f = f.id) =>
      /\ Cardinality(SentNext("error", f.id))
           = (IF Reachable(f.session) THEN 1 ELSE 0)
      /\ FailureLeavesSessionAlone(f.session)

C10_RecoverableErrorWhileActive == [][C10_Step]_vars

C10_Witness ==
  /\ ev.op \in FailOps
  /\ Reachable(ev.s)
  /\ Cardinality(Sent("error", ev.f)) = 1
  /\ sess[ev.s].state = "listening"
  /\ sessions[sess[ev.s].sessionId] = ev.s

\* C11: a flush whose speech-to-text result is empty or whitespace-only sends
\* no final and no error and leaves the state at listening when it completes:
\* the step that takes the empty result does so, only a transcript with a
\* visible character goes on to translation or into a final, and no final or
\* error is sent for a flush that has completed.
NonBlank(t) == \E i \in DOMAIN t : t[i] \notin Whitespace

C11_Step ==
  /\ \A f \in flushes :
       (ev'.op = "sttEmpty" /\ ev'.f = f.id) =>
         /\ \A i \in DOMAIN out' : out'[i].type \notin {"final", "error"}
         /\ sess'[f.session].state = "listening"
  /\ \A f \in flushes' : f.pc # "stt" => NonBlank(f.text)
  /\ \A i \in DOMAIN out' :
       /\ out'[i].type = "final" => NonBlank(out'[i].body.asr)
       /\ (out'[i].type \in {"final", "error"} /\ out'[i].flush # 0)
            => out'[i].flush \in FlushIds

C11_EmptyTranscriptIsSilent == [][C11_Step]_vars

\* A whitespace-only result was taken for a session that can be reached: only
\* the listening status was sent.
C11_Witness ==
  /\ ev.op = "sttEmpty"
  /\ ev.n > 0
  /\ Reachable(ev.s)
  /\ sess[ev.s].state = "listening"
  /\ out = <<StatusMsg(ev.s, ev.f, "listening")>>

\* C12: every flush of an active session ends in exactly one of three
\* outcomes: one final, one error, or neither with the state back at listening
\* after an empty transcript; a final or an error of a flush is sent only by
\* the step that completes it, so never twice and never both.
C12_ExactlyOneOutcome ==
  /\ (ev.op \in CompletionOps /\ sess[ev.s].isActive) =>
       LET finals == Cardinality(Sent("final", ev.f))
           errors == Cardinality(Sent("error", ev.f))
       IN \/ finals = 1 /\ errors = 0
          \/ finals = 0 /\ errors = 1
          \/ /\ finals = 0 /\ errors = 0
             /\ ev.op = "sttEmpty"
             /\ sess[ev.s].state = "listening"
  /\ \A i \in DOMAIN out :
       (out[i].type \in {"final", "error"} /\ out[i].flush # 0)
         => (ev.op \in CompletionOps /\ out[i].flush = ev.f)

\* C13: a paused session stays paused until a resume or a stop (or the loss of
\* the connection) arrives: no audio or vad message, no timer and no completion
\* of a provider call moves the state out of paused.
C13_Step ==
  \A s \in DOMAIN sess :
    (sess[s].state = "paused" /\ sess'[s].state # "paused")
      => ev'.op \in {"resume", "stop", "close", "error"}

C13_PausedUntilResume == [][C13_Step]_vars

\* C14: a chunk is appended to the buffer only by an audio message received
\* while the state is not paused; an audio message received while paused
\* leaves the buffer as it is and dispatches no flush.
C14_Step ==
  \A s \in DOMAIN sess :
    /\ (Range(sess'[s].audioBuffer) \ Range(sess[s].audioBuffer) # {})
         => (ev'.op = "audio" /\ ev'.s = s /\ sess[s].state # "paused")
    /\ (ev'.op = "audio" /\ ev'.s = s /\ sess[s].state = "paused")
         => /\ sess'[s].audioBuffer = sess[s].audioBuffer
            /\ flushes' = flushes
            /\ nFlush' = nFlush

C14_NoBufferingWhilePaused == [][C14_Step]_vars

\* An audio message was received by a paused session whose buffer it would
\* have brought to the duration threshold.
C14_Witness ==
  /\ ev.op = "audio"
  /\ ev.s # 0
  /\ sess[ev.s].state = "paused"
  /\ sess[ev.s].audioBuffer # <<>>
  /\ (SumSamples(sess[ev.s].audioBuffer) + ev.n) * 1000
       >= FlushDurationMs * SampleRateOf(sess[ev.s])

\* C15: the notifications of a flush are sent in the order of the events that
\* produce them: the translating status at the dispatch, before the final or
\* the error, and the final or the error before the status of the state the
\* flush leads to (playing after a final, listening after an error).
C15_Step ==
  /\ \A g \in flushes' : g.id \notin FlushIds => g.told = out'
  /\ \A f \in flushes :
       (ev'.op \in CompletionOps /\ ev'.f = f.id) =>
         \A i \in DOMAIN out' :
           (out'[i].type \in {"final", "error"} /\ out'[i].flush = f.id) =>
             /\ f.told = <<StatusMsg(f.session, f.id, "translating")>>
             /\ \A j \in 1..(i - 1) : out'[j].type # "status"
             /\ \E j \in (i + 1)..Len(out') :
                  out'[j] = StatusMsg(f.session, f.id,
                                      IF out'[i].type = "final" THEN "playing"
                                                                ELSE "listening")

C15_StatusResultStatus == [][C15_Step]_vars

\* A flush that was announced as translating has completed with a final
\* followed by the playing status.
C15_Witness ==
  /\ ev.op \in SuccessOps
  /\ Len(out) = 2
  /\ out[1].type = "final" /\ out[1].flush = ev.f
  /\ out[2] = StatusMsg(ev.s, ev.f, "playing")

\* C16: every change of the state of an active session, and the state a new
\* session starts in, is announced by exactly one status notification that
\* carries the new state, sent on an open connection.
Announced(s) ==
  /\ readyState'[sess'[s].ws] = "OPEN"
  /\ Cardinality({i \in DOMAIN out' :
                    /\ out'[i].type = "status"
                    /\ out'[i].session = s
                    /\ out'[i].body = sess'[s].state}) = 1

C16_Step ==
  /\ \A s \in DOMAIN sess :
       (sess[s].isActive /\ sess'[s].state # sess[s].state) => Announced(s)
  /\ \A s \in DOMAIN sess' \ DOMAIN sess : Announced(s)

C16_EveryStateAnnounced == [][C16_Step]_vars

\* C17: the messages of a connection are processed in strict arrival order:
\* while the flush that an audio message has just dispatched is outstanding,
\* the processing of that message has not finished, and no later message of
\* the connection is applied.
C17_Step ==
  ( /\ ev.op = "audio"
    /\ ev.f \in FlushIds
    /\ nIn' = nIn + 1
    /\ ev'.s # 0 => sess'[ev'.s].ws = sess[ev.s].ws )
  => UNCHANGED <<sess, sessions, session, flushes, timers>>

C17_StrictArrivalOrder == [][C17_Step]_vars

\* C18: a run of the sweep stops and removes from the registry every session
\* whose last activity is more than 30 minutes ago, and leaves every other
\* session as it is: registered if it was, active if it was, nothing changed.
Registered(s) == \E id \in SessionIds : sessions[id] = s

C18_Step ==
  ev'.op = "sweep" =>
    /\ \A id \in SessionIds :
         LET s == sessions[id]
         IN s # NoSession =>
              IF now - sess[s].lastActivity > 30 * 60 * 1000
                THEN /\ sessions'[id] = NoSession
                     /\ sess'[s] = [sess[s] EXCEPT !.isActive = FALSE]
                ELSE /\ sessions'[id] = s
                     /\ sess'[s] = sess[s]
    /\ \A id \in SessionIds : sessions[id] = NoSession => sessions'[id] = NoSession
    /\ \A s \in DOMAIN sess : ~Registered(s) => sess'[s] = sess[s]
    /\ DOMAIN sess' = DOMAIN sess
    /\ UNCHANGED <<session, readyState, flushes, timers, tempFiles>>

C18_SweepRemovesIdleOnly == [][C18_Step]_vars

\* The sweep has just removed one session and left another, which had been
\* active more recently, registered and active.
C18_Witness ==
  /\ ev.op = "sweep"
  /\ ev.n = 1
  /\ \E s \in DOMAIN sess : ~sess[s].isActive /\ ~Registered(s)
  /\ \E s \in DOMAIN sess :
       /\ Registered(s) /\ sess[s].isActive
       /\ now - sess[s].lastActivity > 0

\* C19: once the sweep has removed a connection's session, the next audio,
\* vad, pause or resume message of that connection is dropped: it changes
\* neither the state nor the buffer of the session and dispatches no flush.
C19_Step ==
  \A c \in Conns :
    LET s == session[c]
    IN ( /\ s # NoSession
         /\ ev.op = "sweep"
         /\ ~sess[s].isActive /\ ~Registered(s)
         /\ now - sess[s].lastActivity > 30 * 60 * 1000
         /\ ev'.op \in {"audio", "vad", "pause", "resume"}
         /\ nIn' = nIn + 1 )
       => /\ sess'[s].state = sess[s].state
          /\ sess'[s].audioBuffer = sess[s].audioBuffer
          /\ flushes' = flushes
          /\ nFlush' = nFlush

C19_DroppedAfterSweep == [][C19_Step]_vars

\* C20: the last-activity time of a session is set to the current time by
\* every audio, vad, pause or resume message handled for it and by every
\* notification sent for it.
C20_Step ==
  \A s \in DOMAIN sess' :
    ( \/ ev'.op \in {"audio", "vad", "pause", "resume"} /\ ev'.s = s
      \/ \E i \in DOMAIN out' : out'[i].session = s )
    => sess'[s].lastActivity = now'

C20_ActivityOnEveryMessage == [][C20_Step]_vars

\* C21: a start message registers the new session under its sessionId; after a
\* stop message, a close or an error of its connection the registry has no
\* entry under the sessionId of a session that was started on the connection;
\* the entries under other ids are unchanged by these operations.
OtherEntriesUnchanged(ids) ==
  \A other \in SessionIds \ ids : sessions'[other] = sessions[other]

StartedOn(c) == {s \in DOMAIN sess : sess[s].ws = c}

C21_Step ==
  /\ ev'.op = "start" =>
       /\ ev'.s \notin DOMAIN sess
       /\ sessions'[sess'[ev'.s].sessionId] = ev'.s
       /\ OtherEntriesUnchanged({sess'[ev'.s].sessionId})
  /\ ev'.op \in {"stop", "close", "error"} =>
       IF ev'.s = 0
         THEN sessions' = sessions
         ELSE LET mine == StartedOn(sess[ev'.s].ws)
              IN /\ \A s \in mine : sessions'[sess[s].sessionId] = NoSession
                 /\ OtherEntriesUnchanged({sess[s].sessionId : s \in mine})

C21_RegistryFollowsStartAndStop == [][C21_Step]_vars

\* C22: a primary translation call that fails with an authentication or quota
\* error is not retried: the fallback provider is not called for the flush,
\* which ends at once with an error notification to a session that can be
\* reached.
C22_AuthAndQuotaNotRetried ==
  (ev.op = "primaryFail" /\ ev.why \in {"auth", "quota"}) =>
    /\ \A f \in flushes : f.id = ev.f => f.pc # "fallback"
    /\ ev.f \notin FlushIds
    /\ Reachable(ev.s) => Cardinality(Sent("error", ev.f)) = 1

\* C23: the temp file a flush writes at its dispatch is gone once the flush
\* has completed, whichever way it ends, and the temp directory holds no file
\* that does not belong to an outstanding flush: when all flushes have
\* completed it is empty.
C23_Step ==
  /\ \A g \in flushes' : g.id \notin FlushIds => g.tempFile \in tempFiles'
  /\ \A f \in flushes :
       f.id \notin {g.id : g \in flushes'} => f.tempFile \notin tempFiles'
  /\ tempFiles' \subseteq {g.tempFile : g \in flushes'}

C23_TempFilesDeleted == [][C23_Step]_vars

\* The only flush so far has ended with the failure of both translation
\* providers, and the temp directory is empty.
C23_Witness ==
  /\ ev.op = "fallbackFail"
  /\ nFlush = 1
  /\ flushes = {}
  /\ tempFiles = {}

\* C24 as stated: in fixed mode a translation provider is called exactly if
\* the detected language differs from the configured target, and when they
\* are equal the final carries the transcript unchanged as its translation.
Unchanged(m) == m.body.mt.by = "none" /\ m.body.mt.src = m.body.asr

FixedModeStep(target) ==
  \A f \in flushes :
    ( /\ f.pc = "stt" /\ ev'.f = f.id
      /\ sess[f.session].config.mode = "fixed" )
    => LET to == target[sess[f.session].config.to]
       IN /\ ev'.op = "sttReturn" =>
               \A g \in flushes' : g.id = f.id => g.detected # to
          /\ ev'.op = "sttFinal" =>
               \A i \in DOMAIN out' :
                 out'[i].type = "final" =>
                   (out'[i].body.lid = to /\ Unchanged(out'[i]))

ConfiguredTarget == [to \in LangSides |-> to]

C24_FixedModeAsStated == [][FixedModeStep(ConfiguredTarget)]_vars

\* C24 amended: the same with the target the configuration resolves to, which
\* is the configured target if that is a language code and en if it is auto.
ResolvedTarget == [to \in LangSides |-> IF to = "auto" THEN "en" ELSE to]

C24_FixedMode == [][FixedModeStep(ResolvedTarget)]_vars

\* An Arabic transcript of a fixed-mode session with target ar was sent back
\* unchanged.
C24_Witness ==
  /\ ev.op = "sttFinal"
  /\ sess[ev.s].config.mode = "fixed"
  /\ sess[ev.s].config.to = "ar"
  /\ Len(out) = 2
  /\ out[1].type = "final" /\ out[1].body.lid = "ar" /\ Unchanged(out[1])

\* C25: in alternate mode the resolved target never equals the detected
\* language, so every non-empty transcript goes to a translation provider;
\* with at least one side a language code the target is one of the configured
\* codes. (Stated for configurations whose two sides differ.)
C25_Step ==
  \A f \in flushes :
    ( /\ f.pc = "stt" /\ ev'.f = f.id
      /\ sess[f.session].config.mode = "alternate"
      /\ sess[f.session].config.from # sess[f.session].config.to )
    => LET config == sess[f.session].config
           codes  == {config.from, config.to} \ {"auto"}
       IN /\ ev'.op # "sttFinal"
          /\ ev'.op = "sttReturn" =>
               \A g \in flushes' :
                 g.id = f.id =>
                   /\ g.target # g.detected
                   /\ codes # {} => g.target \in codes

C25_AlternateTargetsTheOther == [][C25_Step]_vars

\* C26: a message of an unknown type is ignored: no session, registry entry,
\* pending call or timer changes, nothing is sent, and the connection stays
\* as it is.
C26_Step ==
  ev'.op = "unknown" =>
    /\ UNCHANGED <<sess, sessions, session, readyState, flushes, timers>>
    /\ out' = <<>>

C26_UnknownTypeIgnored == [][C26_Step]_vars

\* A message of an unknown type was received for a session that can be
\* reached and has chunks buffered.
C26_Witness ==
  /\ ev.op = "unknown"
  /\ ev.s # 0
  /\ Reachable(ev.s)
  /\ sess[ev.s].audioBuffer # <<>>

\* C27: a message that fails to parse leaves the state, the buffer and the VAD
\* marker of every session and the registry unchanged, and the connection
\* open.
C27_Step ==
  ev'.op = "malformed" =>
    /\ DOMAIN sess' = DOMAIN sess
    /\ \A s \in DOMAIN sess :
         /\ sess'[s].state = sess[s].state
         /\ sess'[s].audioBuffer = sess[s].audioBuffer
         /\ sess'[s].vadState = sess[s].vadState
    /\ sessions' = sessions
    /\ \A c \in Conns : readyState[c] = "OPEN" => readyState'[c] = "OPEN"

C27_MalformedDropped == [][C27_Step]_vars

\* A message that failed to parse was received for a session that can be
\* reached and has chunks buffered; the error notification went out.
C27_Witness ==
  /\ ev.op = "malformed"
  /\ ev.s # 0
  /\ Reachable(ev.s)
  /\ sess[ev.s].audioBuffer # <<>>
  /\ out = <<ErrorMsg(ev.s, 0, "Message processing failed")>>

\* C28: a message, a close or an error of one connection changes neither the
\* state, the buffer, the activity flag nor the registry entry of a session
\* that another connection created, and sends nothing to another connection.
ConnectionOps ==
  {"start", "audio", "vad", "pause", "resume", "stop", "unknown", "malformed",
   "close", "error"}

C28_Step ==
  (ev'.op \in ConnectionOps /\ ev'.s # 0) =>
    LET c == sess'[ev'.s].ws
    IN /\ \A s \in DOMAIN sess :
            sess[s].ws # c =>
              /\ sess'[s].state = sess[s].state
              /\ sess'[s].audioBuffer = sess[s].audioBuffer
              /\ sess'[s].isActive = sess[s].isActive
              /\ \A id \in SessionIds : sessions[id] = s => sessions'[id] = s
       /\ \A i \in DOMAIN out' : sess'[out'[i].session].ws = c

C28_SessionsIndependent == [][C28_Step]_vars

\* C29: an audio chunk that brings the buffered duration to the threshold
\* dispatches a flush only when the session's state is listening.
C29_Step ==
  \A s \in DOMAIN sess :
    (ev'.op = "audio" /\ ev'.s = s /\ ev'.f # 0 /\ DurationReached(sess'[s])) =>
      sess[s].state = "listening"

C29_DurationFlushOnlyWhenListening == [][C29_Step]_vars

\* C30: an active session that enters playing and is afterwards neither
\* paused nor stopped eventually has state listening again, under fair
\* scheduling of the timers.
Playing(s) ==
  s \in DOMAIN sess /\ sess[s].isActive /\ sess[s].state = "playing"

ListeningOrExcused(s) ==
  /\ s \in DOMAIN sess
  /\ \/ sess[s].state = "listening"
     \/ sess[s].state = "paused"
     \/ ~sess[s].isActive

C30_PlayingReturnsToListening ==
  \A s \in 1..FairInputs : [](Playing(s) => <>ListeningOrExcused(s))

\* C31: on a connection that has handled no start, an audio, vad, pause,
\* resume or stop message creates no session, changes no registry entry, calls
\* no provider and sends no notification.
SessionOps == {"audio", "vad", "pause", "resume", "stop"}

C31_Step ==
  (ev'.op \in SessionOps /\ ev'.s = NoSession) =>
    /\ sess' = sess
    /\ sessions' = sessions
    /\ session' = session
    /\ flushes' = flushes
    /\ tempFiles' = tempFiles
    /\ timers' = timers
    /\ out' = <<>>

C31_DroppedBeforeStart == [][C31_Step]_vars

\* A message was dropped on one connection while the other connection's
\* session is registered.
C31_Witness ==
  /\ ev.op \in SessionOps
  /\ ev.s = NoSession
  /\ \E c \in DOMAIN session : session[c] = NoSession
  /\ \E s \in DOMAIN sess : Registered(s)

\* C32: within one flush speech-to-text is called exactly once, at dispatch;
\* the primary translation is called at most once and only when
\* speech-to-text returned a non-empty transcript; the fallback is called at
\* most once and only when the primary call of the same flush failed; an
\* empty transcript ends the flush without a translation call.
\* Stage of flush i: 0 not dispatched, 1 awaiting speech-to-text, 2 awaiting
\* the primary translation, 3 awaiting the fallback, 4 completed.
Stage(fl, n, i) ==
  IF i > n THEN 0
  ELSE IF \E f \in fl : f.id = i
    THEN LET f == CHOOSE g \in fl : g.id = i
         IN CASE f.pc = "stt" -> 1
              [] f.pc = "primary" -> 2
              [] OTHER -> 3
    ELSE 4

C32_Step ==
  \A i \in 1..nFlush' :
    LET a == Stage(flushes, nFlush, i)
        b == Stage(flushes', nFlush', i)
    IN /\ a <= b
       /\ (a = 0 /\ b # 0) => (b = 1 /\ ev'.op \in DispatchOps /\ ev'.f = i)
       /\ (a # 2 /\ b = 2) =>
            /\ a = 1
            /\ ev'.op = "sttReturn"
            /\ ev'.f = i
            /\ \A f \in flushes' : f.id = i => NonBlank(f.text)
       /\ (a # 3 /\ b = 3) => (a = 2 /\ ev'.op = "primaryFail" /\ ev'.f = i)
       /\ (a # 4 /\ b = 4) => (ev'.op \in CompletionOps /\ ev'.f = i)
       /\ (ev'.op = "sttEmpty" /\ ev'.f = i) => (a = 1 /\ b = 4)

C32_ProviderCallsInOrder == [][C32_Step]_vars

\* The fallback of one flush has returned while another flush awaits the
\* primary translation.
C32_Witness ==
  /\ ev.op = "fallbackReturn"
  /\ \E f \in flushes : f.pc = "primary" /\ NonBlank(f.text)

\* C33: when every provider call eventually returns or fails, every
\* dispatched flush eventually completes, and no session stays in translating
\* forever: a session is in translating only while one of its flushes is in
\* flight, and the completion of its last in-flight flush leaves its state
\* playing, listening or paused.
C33_LastCompletion ==
  \A s \in DOMAIN sess :
    (ev'.op \in CompletionOps /\ ev'.s = s /\ InFlight(s)' = {}) =>
      sess'[s].state \in {"playing", "listening", "paused"}

C33_TranslatingInFlight ==
  \A s \in DOMAIN sess : sess[s].state = "translating" => InFlight(s) # {}

\* Every flush follows a start message and one further message.
FairFlushIds == 1..(FairInputs - 1)

C33_FlushesComplete ==
  /\ [](FlushIds \subseteq FairFlushIds)
  /\ \A i \in FairFlushIds : [](i \in FlushIds => <>(i \notin FlushIds))
  /\ []C33_TranslatingInFlight
  /\ [][C33_LastCompletion]_vars

\* The second of two flushes of a session has failed and none is in flight.
C33_Witness ==
  /\ ev.op \in FailOps
  /\ ev.f = 2
  /\ InFlight(ev.s) = {}
  /\ sess[ev.s].state = "listening"

\* C34: after a close of a connection, or a further start on it, every
\* session that an earlier start on the connection created is inactive and in
\* no registry entry.
C34_Step ==
  (ev'.op \in {"start", "close"} /\ ev'.s # NoSession) =>
    \A s \in StartedOn(sess'[ev'.s].ws) :
      /\ ~sess'[s].isActive
      /\ \A id \in SessionIds : sessions'[id] # s

C34_OneLiveSessionPerConnection == [][C34_Step]_vars

\* C35: after a vad end that arrived while the buffer was empty, the first
\* audio chunk is flushed on arrival only when it brings the buffered
\* duration to the threshold.
C35_Step ==
  \A s \in DOMAIN sess :
    (/\ sess[s].vadState = "end_detected"
     /\ sess[s].audioBuffer = <<>>
     /\ ev'.op = "audio"
     /\ ev'.s = s
     /\ ev'.f # 0) => DurationReached(sess'[s])

C35_StaleEndMarkerIgnored == [][C35_Step]_vars

\* C36: a playback timer moves the state from playing to listening only when
\* it was armed by the utterance being played, that is by the latest final of
\* the session: no playback timer of the session was armed after it.
ArmedLater(i, s) ==
  \E j \in DOMAIN timers :
    j > i /\ timers[j].kind = "playback" /\ timers[j].s = s

C36_Step ==
  \A s \in DOMAIN sess :
    (/\ ev'.op = "playbackTimer"
     /\ ev'.s = s
     /\ sess[s].state = "playing"
     /\ sess'[s].state = "listening") =>
      \A i \in DOMAIN timers :
        (timers[i].kind = "playback" /\ timers[i].f = ev'.f) => ~ArmedLater(i, s)

C36_TimerEndsOwnPlayback == [][C36_Step]_vars

\* C37: every session in the registry is active and stored under its own
\* sessionId, and a step that makes a registered session inactive is a stop,
\* close, error, sweep or shutdown that removes its registry entry.
C37_RegisteredIsActive ==
  \A id \in SessionIds :
    sessions[id] # NoSession =>
      /\ sessions[id] \in DOMAIN sess
      /\ sess[sessions[id]].isActive
      /\ sess[sessions[id]].sessionId = id

C37_Step ==
  \A s \in DOMAIN sess :
    (Registered(s) /\ sess[s].isActive /\ ~sess'[s].isActive) =>
      /\ ev'.op \in {"stop", "close", "error", "sweep", "shutdown"}
      /\ sessions'[sess[s].sessionId] = NoSession

C37_RegistryHoldsActiveSessions ==
  []C37_RegisteredIsActive /\ [][C37_Step]_vars

\* The shutdown handler has just stopped two registered sessions.
C37_Witness ==
  /\ ev.op = "shutdown"
  /\ ev.n = 2
  /\ \A s \in DOMAIN sess : ~sess[s].isActive

\* C38: two flushes in flight at the same time have different temp file
\* names, and the file of a flush that awaits speech-to-text exists.
C38_DistinctTempFiles ==
  /\ \A f, g \in flushes : f.id # g.id => f.tempFile # g.tempFile
  /\ \A f \in flushes : f.pc = "stt" => f.tempFile \in tempFiles

\* C39: the detected language of a flush is a function of its transcript
\* alone; each of ar, ur, zh, ja, ko, ru is returned for some transcript; a
\* transcript with no code unit of those scripts gives en.
ScriptCodes == {"ar", "ur", "zh", "ja", "ko", "ru"}
LatinOnly(t) == \A i \in DOMAIN t : t[i] \in {32, 72}

C39_DetectionCoversItsRules ==
  /\ \A f \in flushes :
       f.pc # "stt" => f.detected = detectLanguageFromText(f.text)
  /\ \A code \in ScriptCodes :
       \E t \in DetectTexts : detectLanguageFromText(t) = code
  /\ \A t \in DetectTexts : LatinOnly(t) => detectLanguageFromText(t) = "en"

====
